---- MODULE Spec2Model ----
(***************************************************************************)
(* Universal Interface AI: the Markdown section parser (parseSections in   *)
(* WebUITool), the client-side PDF export and the section filter of its    *)
(* preview (generatePdf and filteredSections in PdfPreviewModal), and the  *)
(* history of analyses (saveToHistory, deleteHistoryItem and clearHistory  *)
(* in WebUITool).  Strings are sequences of one-character strings, so      *)
(* that split, startsWith, trim and join are computed as the code does.    *)
(***************************************************************************)
EXTENDS Integers, Sequences, FiniteSets, TLC

VARIABLES
    \* ---- parseSections (WebUITool) ----
    markdown,   \* argument of parseSections
    parsed,     \* value returned by parseSections
    ppc,        \* "input" before the call, "parsed" after it
    \* ---- WebUITool state the export depends on ----
    image,              \* a screenshot File is selected
    result,             \* analysis Markdown; <<>> is the falsy (null) result
    loading,            \* an analysis call is in flight
    isPdfModalOpen,
    inst,               \* number of PdfPreviewModal instances mounted so far
    \* ---- PdfPreviewModal state (of the mounted instance) ----
    includeCover, includeScreenshot, includeJson, includeA11y,
    isGenerating,
    imgPreview,         \* the data URL of the screenshot has been loaded
    \* ---- generatePdf invocations ----
    runs,               \* locals of each call of generatePdf
    \* ---- the preview's section filter (PdfPreviewModal) ----
    dataSections,       \* the prop data.sections
    shownSections,      \* filteredSections of the current render
    \* ---- history (WebUITool) ----
    history,            \* the state variable history
    stored,             \* localStorage entry 'uia_history'
    now,                \* Date.now()
    pending,            \* closure of the handleRun call awaiting the service
    \* ---- runUniversalInterface (services/gemini.ts) ----
    svc,                \* position, requests and outcome of one call
    \* ---- the analysis form (WebUITool) ----
    task,               \* the task text area
    error,              \* the inline error message, <<>> for null
    orphan,             \* handleRun call of an instance unmounted by New Chat
    \* ---- ChatPanel ----
    messages,
    chatLoading,        \* the state variable loading of ChatPanel
    analysisContext,    \* the prop analysisContext
    chatCall,           \* closure of the handleSend call awaiting the service
    \* ---- speech (WebUITool) ----
    speechState,
    speechRef,          \* speechRef.current: an utterance, 0 for null
    utterances          \* what the speech engine holds of each utterance

parseVars == <<markdown, parsed, ppc>>
toolVars  == <<image, result, loading, isPdfModalOpen, inst>>
modalVars == <<includeCover, includeScreenshot, includeJson, includeA11y,
               isGenerating, imgPreview>>
filterVars  == <<dataSections, shownSections>>
historyVars == <<history, stored, now, pending>>
svcVars     == <<svc>>
formVars    == <<task, error, orphan>>
chatVars    == <<messages, chatLoading, analysisContext, chatCall>>
speechVars  == <<speechState, speechRef, utterances>>
laterVars   == <<svcVars, formVars, chatVars, speechVars>>
otherVars   == <<filterVars, historyVars, laterVars>>

-----------------------------------------------------------------------------
(* Bounds *)
MaxLines == 3          \* lines per generated Markdown input
MaxRuns  == 2          \* calls of generatePdf whose locals are live at once
MaxInst  == 2          \* mounts of PdfPreviewModal in one behaviour

-----------------------------------------------------------------------------
(* String helpers (JavaScript String methods on character sequences) *)

NL == "\n"

\* characters String.prototype.trim removes (of those in the alphabet used)
IsWs(c) == c \in {" ", NL}

\* s.startsWith(p)
StartsWith(s, p) == Len(s) >= Len(p) /\ SubSeq(s, 1, Len(p)) = p

\* s.slice(n) with 0-based n
DropFirst(s, n) == SubSeq(s, n + 1, Len(s))

RECURSIVE TrimStart(_)
TrimStart(s) == IF s # <<>> /\ IsWs(Head(s)) THEN TrimStart(Tail(s)) ELSE s

RECURSIVE TrimEnd(_)
TrimEnd(s) ==
    IF s # <<>> /\ IsWs(s[Len(s)]) THEN TrimEnd(SubSeq(s, 1, Len(s) - 1)) ELSE s

\* s.trim()
Trim(s) == TrimEnd(TrimStart(s))

\* s.split('\n'): always at least one element
RECURSIVE SplitNL(_)
SplitNL(s) ==
    IF \A i \in 1..Len(s) : s[i] # NL THEN <<s>>
    ELSE LET k == CHOOSE i \in 1..Len(s) :
                     s[i] = NL /\ \A j \in 1..(i - 1) : s[j] # NL
         IN <<SubSeq(s, 1, k - 1)>> \o SplitNL(SubSeq(s, k + 1, Len(s)))

\* lines.join('\n')
RECURSIVE JoinNL(_)
JoinNL(ls) ==
    IF ls = <<>> THEN <<>>
    ELSE IF Len(ls) = 1 THEN ls[1]
    ELSE ls[1] \o <<NL>> \o JoinNL(Tail(ls))

-----------------------------------------------------------------------------
(* parseSections *)

Overview == <<"O", "v", "e", "r", "v", "i", "e", "w">>
HeadingMarker == <<"#", "#", "#", " ">>
Hashes == <<"#", "#", "#">>

\* markdown.split(/(^|\n)### /g)[0]: the text before the first match of the
\* separator; without the m flag ^ matches at offset 0 only.
Parts0(md) ==
    IF StartsWith(md, HeadingMarker) THEN <<>>
    ELSE LET hits == {i \in 1..Len(md) :
                        md[i] = NL /\ StartsWith(DropFirst(md, i), HeadingMarker)}
         IN IF hits = {} THEN md
            ELSE SubSeq(md, 1, (CHOOSE i \in hits : \A j \in hits : i <= j) - 1)

\* the "Overview" push made before the line scan
IntroSections(md) ==
    LET p0 == Parts0(md)
    IN IF p0 # <<>> /\ Len(Trim(p0)) > 0 /\ ~StartsWith(md, Hashes)
       THEN <<[title |-> Overview, content |-> p0]>>
       ELSE <<>>

\* variant: a heading flushes the previous section only if it has lines
LineStep_contentOnly(st, line) ==
    IF StartsWith(line, HeadingMarker)
    THEN [sections |->
             IF Len(st.currentContent) > 0
             THEN Append(st.sections, [title   |-> st.currentTitle,
                                       content |-> JoinNL(st.currentContent)])
             ELSE st.sections,
          currentTitle   |-> Trim(DropFirst(line, Len(HeadingMarker))),
          currentContent |-> <<>>]
    ELSE [st EXCEPT !.currentContent = Append(@, line)]

\* variant: a heading always flushes what precedes it
LineStep_always(st, line) ==
    IF StartsWith(line, HeadingMarker)
    THEN [sections |-> Append(st.sections,
                              [title   |-> st.currentTitle,
                               content |-> JoinNL(st.currentContent)]),
          currentTitle   |-> Trim(DropFirst(line, Len(HeadingMarker))),
          currentContent |-> <<>>]
    ELSE [st EXCEPT !.currentContent = Append(@, line)]

\* one iteration of lines.forEach
LineStep(st, line) ==
    IF StartsWith(line, HeadingMarker)
    THEN [sections |->
             IF Len(st.currentContent) > 0 \/ st.currentTitle # Overview
             THEN Append(st.sections, [title   |-> st.currentTitle,
                                       content |-> JoinNL(st.currentContent)])
             ELSE st.sections,
          currentTitle   |-> Trim(DropFirst(line, Len(HeadingMarker))),
          currentContent |-> <<>>]
    ELSE [st EXCEPT !.currentContent = Append(@, line)]

RECURSIVE ForEachLine(_, _)
ForEachLine(st, lines) ==
    IF lines = <<>> THEN st
    ELSE ForEachLine(LineStep(st, Head(lines)), Tail(lines))

\* variant: the last section's content is trimmed
FinalFlush_trimmed(st) ==
    IF Len(st.currentContent) > 0
    THEN Append(st.sections, [title   |-> st.currentTitle,
                              content |-> Trim(JoinNL(st.currentContent))])
    ELSE st.sections

\* the push made after the line scan
FinalFlush(st) ==
    IF Len(st.currentContent) > 0
    THEN Append(st.sections, [title   |-> st.currentTitle,
                              content |-> JoinNL(st.currentContent)])
    ELSE st.sections

parseSections(md) ==
    IF md = <<>> THEN <<>>
    ELSE FinalFlush(ForEachLine([sections       |-> IntroSections(md),
                                 currentTitle   |-> Overview,
                                 currentContent |-> <<>>],
                                SplitNL(md)))

-----------------------------------------------------------------------------
(* Inputs of parseSections *)

ExampleInput ==
    <<"I", "n", "t", "r", "o", " ", "t", "e", "x", "t", "\n",
      "#", "#", "#", " ", "S", "t", "e", "p", "s", "\n",
      "1", ".", " ", "D", "o", " ", "X", "\n",
      "#", "#", "#", " ", "N", "o", "t", "e", "s", "\n",
      "S", "o", "m", "e", " ", "n", "o", "t", "e">>

ParseLines ==
    { <<>>,
      <<" ">>,
      <<"x">>,
      <<"#", "#", "#", " ", "A">>,
      <<"#", "#", "#", " ", "B", " ">>,
      <<"#", "#", "#", "x">>,
      <<" ", "#", "#", "#", " ", "A">>,
      <<"#", "#", "#", " ">> \o Overview }

ParseInputs ==
    {ExampleInput} \cup
    {JoinNL(ls) : ls \in UNION {[1..n -> ParseLines] : n \in 1..MaxLines}}

-----------------------------------------------------------------------------
(* Specification of the parser *)

ParseInit ==
    /\ markdown \in ParseInputs
    /\ parsed = <<>>
    /\ ppc = "input"

ParseCall ==
    /\ ppc = "input"
    /\ parsed' = parseSections(markdown)
    /\ ppc' = "parsed"
    /\ UNCHANGED <<markdown, toolVars, modalVars, runs, otherVars>>

-----------------------------------------------------------------------------
(* Section filter of the preview (filteredSections) *)

UpperCase == <<"A", "B", "C", "D", "E", "F", "G", "H", "I", "J", "K", "L", "M",
               "N", "O", "P", "Q", "R", "S", "T", "U", "V", "W", "X", "Y", "Z">>
LowerCase == <<"a", "b", "c", "d", "e", "f", "g", "h", "i", "j", "k", "l", "m",
               "n", "o", "p", "q", "r", "s", "t", "u", "v", "w", "x", "y", "z">>

\* s.toLowerCase()
toLowerCase(s) ==
    [k \in 1..Len(s) |->
        IF \E u \in 1..26 : UpperCase[u] = s[k]
        THEN LowerCase[CHOOSE u \in 1..26 : UpperCase[u] = s[k]]
        ELSE s[k]]

\* s.includes(sub)
includes(s, sub) ==
    \E k \in 0..(Len(s) - Len(sub)) : SubSeq(s, k + 1, k + Len(sub)) = sub

AutomationJson ==
    <<"a", "u", "t", "o", "m", "a", "t", "i", "o", "n", " ", "j", "s", "o", "n">>
Accessibility ==
    <<"a", "c", "c", "e", "s", "s", "i", "b", "i", "l", "i", "t", "y">>

\* variant: the titles are compared as written
KeepSection_caseSensitive(section, incJson, incA11y) ==
    IF ~incJson /\ includes(section.title, AutomationJson) THEN FALSE
    ELSE IF ~incA11y /\ includes(section.title, Accessibility) THEN FALSE
    ELSE TRUE

\* the callback of data.sections.filter
KeepSection(section, incJson, incA11y) ==
    IF ~incJson /\ includes(toLowerCase(section.title), AutomationJson) THEN FALSE
    ELSE IF ~incA11y /\ includes(toLowerCase(section.title), Accessibility) THEN FALSE
    ELSE TRUE

filteredSections(sections, incJson, incA11y) ==
    LET Keep(s) == KeepSection(s, incJson, incA11y)
    IN SelectSeq(sections, Keep)

-----------------------------------------------------------------------------
(* The preview DOM that generatePdf clones *)

\* children of printRef in document order, the space-y-8 stack expanded to
\* one block per filtered section; text: innerText.trim() is not empty
RenderedBlocks(sections, incCover, incJson, incA11y) ==
    LET fs == filteredSections(sections, incJson, incA11y)
    IN <<[kind |-> "header", text |-> TRUE]>>
       \o (IF incCover THEN <<[kind |-> "cover", text |-> TRUE]>> ELSE <<>>)
       \o [k \in 1..Len(fs) |->
              [kind |-> "section",
               text |-> Trim(fs[k].title \o <<NL>> \o fs[k].content) # <<>>]]
       \o <<[kind |-> "footer", text |-> TRUE]>>

\* temp.querySelector('img[alt="Screenshot"]') finds an element: the image is
\* rendered inside the cover block only, under includeCover && (... under
\* includeScreenshot && imgPreview ...) in the JSX (the report Markdown is
\* taken to hold no image of that alt text, so the else-if branch that only
\* removes the thumbnail never has an element to remove)
HasScreenshotImg(incCover, incScreenshot, preview) ==
    incCover /\ incScreenshot /\ preview

-----------------------------------------------------------------------------
(* jsPDF document: pages of placed images and the current page *)

pageHeight == 297
margin     == 20
gutter     == 5

\* new jsPDF('p', 'mm', 'a4'): one blank page, which is current
newPdf == [pages |-> << <<>> >>, cur |-> 1]

\* pdf.addPage(): appends a page after the last one and makes it current
addPage(pdf) == [pages |-> Append(pdf.pages, <<>>), cur |-> Len(pdf.pages) + 1]

\* variant: the return to page 1 is lost
setPage_stays(pdf, n) == pdf

\* pdf.setPage(n)
setPage(pdf, n) == [pdf EXCEPT !.cur = n]

\* pdf.addImage(...): draws on the current page
addImage(pdf, img) == [pdf EXCEPT !.pages[pdf.cur] = Append(@, img)]

ShotImage == [src |-> 0, y |-> margin, h |-> 0]

\* step 3 of generatePdf: the dedicated screenshot page
ScreenshotPage(pdf, incCover, incScreenshot, preview) ==
    IF HasScreenshotImg(incCover, incScreenshot, preview)
       /\ incScreenshot /\ preview
    THEN setPage(addImage(addPage(pdf), ShotImage), 1)
    ELSE pdf

\* rasterized heights (mm at content width) html2canvas may deliver
RasterHeights == {126, 260}

\* variant: a block that fits exactly is moved too
Overflow_atLimit(cursorY, imgHeight) == cursorY + imgHeight >= pageHeight - margin

\* "Check overflow"
Overflow(cursorY, imgHeight) == cursorY + imgHeight > pageHeight - margin

\* variant: the page break leaves the cursor where it was
BreakPage_noReset(run, imgHeight) ==
    IF Overflow(run.cursorY, imgHeight) THEN [run EXCEPT !.pdf = addPage(@)] ELSE run

\* the page break of the loop body
BreakPage(run, imgHeight) ==
    IF Overflow(run.cursorY, imgHeight)
    THEN [run EXCEPT !.pdf = addPage(@), !.cursorY = margin]
    ELSE run

\* pdf.addImage(imgData, ...) and cursorY += imgHeight + 5
PlaceImage(run, imgHeight) ==
    [run EXCEPT !.pdf = addImage(@, [src |-> run.i, y |-> run.cursorY,
                                     h |-> imgHeight]),
                !.cursorY = @ + imgHeight + gutter]

\* variant: the check of innerText is missing
NextBlock_all(blocks, i) == IF i + 1 <= Len(blocks) THEN i + 1 ELSE 0

\* variant: the loop jumps to the last block that has text
NextBlock_last(blocks, i) ==
    LET later == {j \in (i + 1)..Len(blocks) : blocks[j].text}
    IN IF later = {} THEN 0 ELSE CHOOSE j \in later : \A k \in later : j >= k

\* index of the next block after i that is not skipped as empty, 0 if none
NextBlock(blocks, i) ==
    LET later == {j \in (i + 1)..Len(blocks) : blocks[j].text}
    IN IF later = {} THEN 0 ELSE CHOOSE j \in later : \A k \in later : j <= k

\* pdf.save(...) followed by document.body.removeChild(temp)
SaveAndRemove(run) == [run EXCEPT !.saved = TRUE, !.temp = FALSE, !.pc = "done"]

\* variant: the file is saved whatever happened
Catch_saves(run) == [run EXCEPT !.alerted = TRUE, !.pc = "failed", !.saved = TRUE]

\* the catch clause: console.error and alert
Catch(run) == [run EXCEPT !.alerted = TRUE, !.pc = "failed"]

\* continue the for loop after block run.i: await the next block or finish
Continue(run) ==
    LET n == NextBlock(run.blocks, run.i)
    IN IF n = 0 THEN SaveAndRemove(run) ELSE [run EXCEPT !.i = n]

IdleRun ==
    [pc |-> "idle", inst |-> 0, blocks |-> <<>>, i |-> 0,
     includeScreenshot |-> FALSE, imgPreview |-> FALSE,
     cursorY |-> 0, pdf |-> [pages |-> <<>>, cur |-> 0],
     temp |-> FALSE, saved |-> FALSE, alerted |-> FALSE]

\* reports the analysis service may return
ReportDocs ==
    { <<"#", "#", "#", " ", "3", ".", " ", "A", "u", "t", "o", "m", "a", "t",
        "i", "o", "n", " ", "J", "S", "O", "N", "\n", "y">>,
      <<"#", "#", "#", " ", "\n", "\n", "#", "#", "#", " ", "A", "c", "c", "e",
        "s", "s", "i", "b", "i", "l", "i", "t", "y", "\n", "z">> }

-----------------------------------------------------------------------------
(* WebUITool: what mounts and unmounts the modal *)

\* useState initial values of a PdfPreviewModal instance
ModalDefaults ==
    /\ includeCover' = TRUE
    /\ includeScreenshot' = TRUE
    /\ includeJson' = TRUE
    /\ includeA11y' = TRUE
    /\ isGenerating' = FALSE
    /\ imgPreview' = FALSE

\* the file input is behind the modal's full-screen overlay while it is open
handleFileChange ==
    /\ ~isPdfModalOpen
    /\ ~image
    /\ image' = TRUE
    /\ UNCHANGED <<result, loading, isPdfModalOpen, inst, modalVars, runs, parseVars, otherVars>>

\* handleRun up to the await (the task text is taken to be non-blank):
\* setResult(null) unmounts PdfPreviewModal, which is rendered under
\* result && (...), and its state is lost
handleRun ==
    /\ ~isPdfModalOpen
    /\ image
    /\ ~loading
    /\ inst < MaxInst
    /\ loading' = TRUE
    /\ result' = <<>>
    /\ ModalDefaults
    /\ UNCHANGED <<image, isPdfModalOpen, inst, runs, parseVars, otherVars>>

\* runUniversalInterface resolves: setResult(response) mounts a new modal
AnalysisResolved ==
    /\ loading
    /\ \E doc \in ReportDocs : result' = doc
    /\ loading' = FALSE
    /\ inst' = inst + 1
    /\ ModalDefaults
    /\ UNCHANGED <<image, isPdfModalOpen, runs, parseVars, otherVars>>

\* runUniversalInterface rejects
AnalysisRejected ==
    /\ loading
    /\ loading' = FALSE
    /\ UNCHANGED <<image, result, isPdfModalOpen, inst, modalVars, runs, parseVars, otherVars>>

\* the Export PDF button of the results panel
OpenPdfModal ==
    /\ result # <<>>
    /\ ~isPdfModalOpen
    /\ isPdfModalOpen' = TRUE
    /\ UNCHANGED <<image, result, loading, inst, modalVars, runs, parseVars, otherVars>>

\* onClose
ClosePdfModal ==
    /\ result # <<>>
    /\ isPdfModalOpen
    /\ isPdfModalOpen' = FALSE
    /\ UNCHANGED <<image, result, loading, inst, modalVars, runs, parseVars, otherVars>>

-----------------------------------------------------------------------------
(* PdfPreviewModal *)

\* the effect's fileToBase64(...).then(setImgPreview)
ImgPreviewLoaded ==
    /\ result # <<>>
    /\ image
    /\ ~imgPreview
    /\ imgPreview' = TRUE
    /\ UNCHANGED <<toolVars, includeCover, includeScreenshot, includeJson,
                   includeA11y, isGenerating, runs, parseVars, otherVars>>

Shown == result # <<>> /\ isPdfModalOpen

ToggleCover ==
    /\ Shown
    /\ includeCover' = ~includeCover
    /\ UNCHANGED <<toolVars, includeScreenshot, includeJson, includeA11y,
                   isGenerating, imgPreview, runs, parseVars, otherVars>>

ToggleScreenshot ==
    /\ Shown
    /\ imgPreview
    /\ includeScreenshot' = ~includeScreenshot
    /\ UNCHANGED <<toolVars, includeCover, includeJson, includeA11y,
                   isGenerating, imgPreview, runs, parseVars, otherVars>>

ToggleJson ==
    /\ Shown
    /\ includeJson' = ~includeJson
    /\ UNCHANGED <<toolVars, includeCover, includeScreenshot, includeA11y,
                   isGenerating, imgPreview, runs, parseVars, otherVars>>

ToggleA11y ==
    /\ Shown
    /\ includeA11y' = ~includeA11y
    /\ UNCHANGED <<toolVars, includeCover, includeScreenshot, includeJson,
                   isGenerating, imgPreview, runs, parseVars, otherVars>>

\* variant: the finally clause is missing
Finally_keeps(r) == isGenerating' = isGenerating

\* finally { setIsGenerating(false) }: a state update of the instance that
\* started the run, which no longer exists after an unmount
Finally(r) ==
    isGenerating' = IF result # <<>> /\ inst = runs[r].inst THEN FALSE
                    ELSE isGenerating

\* locals of generatePdf when it reaches the for loop
Started ==
    [pc      |-> "raster",
     inst    |-> inst,
     includeScreenshot |-> includeScreenshot,    \* values the closure holds
     imgPreview        |-> imgPreview,
     blocks  |-> RenderedBlocks(parseSections(result), includeCover,
                                includeJson, includeA11y),
     i       |-> 0,
     cursorY |-> margin,
     pdf     |-> ScreenshotPage(newPdf, includeCover, includeScreenshot,
                                imgPreview),
     temp    |-> TRUE,
     saved   |-> FALSE,
     alerted |-> FALSE]

CanClick(r) ==
    /\ Shown
    /\ ~isGenerating                       \* disabled={isGenerating}
    /\ runs[r].pc # "raster"                \* the locals of a returned call
    /\ \A q \in 1..(r - 1) : runs[q].pc = "raster"     \* are dropped

\* click on Download PDF: generatePdf up to its first await
generatePdf(r) ==
    /\ CanClick(r)
    /\ LET run == Continue(Started)
       IN /\ runs' = [runs EXCEPT ![r] = run]
          /\ isGenerating' = (run.pc = "raster")
    /\ UNCHANGED <<toolVars, includeCover, includeScreenshot, includeJson,
                   includeA11y, imgPreview, parseVars, otherVars>>

\* click on Download PDF when getImageProperties or addImage of the
\* screenshot throws
ScreenshotThrows(r) ==
    /\ CanClick(r)
    /\ HasScreenshotImg(includeCover, includeScreenshot, imgPreview)
    /\ runs' = [runs EXCEPT ![r] = Catch([Started EXCEPT !.pdf = addPage(newPdf)])]
    /\ isGenerating' = FALSE
    /\ UNCHANGED <<toolVars, includeCover, includeScreenshot, includeJson,
                   includeA11y, imgPreview, parseVars, otherVars>>

\* await html2canvas(block) rejects
html2canvasRejects(r) ==
    /\ runs[r].pc = "raster"
    /\ runs' = [runs EXCEPT ![r] = Catch(@)]
    /\ Finally(r)
    /\ UNCHANGED <<toolVars, includeCover, includeScreenshot, includeJson,
                   includeA11y, imgPreview, parseVars, otherVars>>

\* pdf.getImageProperties(imgData) throws
getImagePropertiesThrows(r) ==
    /\ runs[r].pc = "raster"
    /\ runs' = [runs EXCEPT ![r] = Catch(@)]
    /\ Finally(r)
    /\ UNCHANGED <<toolVars, includeCover, includeScreenshot, includeJson,
                   includeA11y, imgPreview, parseVars, otherVars>>

\* pdf.addImage(imgData, ...) throws, after the overflow check
addImageThrows(r) ==
    /\ runs[r].pc = "raster"
    /\ \E h \in RasterHeights :
          runs' = [runs EXCEPT ![r] = Catch(BreakPage(@, h))]
    /\ Finally(r)
    /\ UNCHANGED <<toolVars, includeCover, includeScreenshot, includeJson,
                   includeA11y, imgPreview, parseVars, otherVars>>

\* variant: the blocks are taken again from the preview at every block
PlaceBlock_rerender(r) ==
    /\ runs[r].pc = "raster"
    /\ \E h \in RasterHeights :
          runs' = [runs EXCEPT ![r] =
                      Continue(PlaceImage(BreakPage(
                          [@ EXCEPT !.blocks = RenderedBlocks(parseSections(result),
                              includeCover, includeJson, includeA11y)], h), h))]
    /\ isGenerating' = IF runs'[r].pc = "done" /\ result # <<>> /\ inst = runs[r].inst
                       THEN FALSE ELSE isGenerating
    /\ UNCHANGED <<toolVars, includeCover, includeScreenshot, includeJson,
                   includeA11y, imgPreview, parseVars, otherVars>>

\* html2canvas resolves and the loop body places the block; the loop then
\* awaits the next block or, after the last one, saves and removes temp
PlaceBlock(r) ==
    /\ runs[r].pc = "raster"
    /\ \E h \in RasterHeights :
          runs' = [runs EXCEPT ![r] = Continue(PlaceImage(BreakPage(@, h), h))]
    /\ isGenerating' = IF runs'[r].pc = "done" /\ result # <<>> /\ inst = runs[r].inst
                       THEN FALSE ELSE isGenerating
    /\ UNCHANGED <<toolVars, includeCover, includeScreenshot, includeJson,
                   includeA11y, imgPreview, parseVars, otherVars>>

\* the last block is placed and pdf.save throws
saveThrows(r) ==
    /\ runs[r].pc = "raster"
    /\ NextBlock(runs[r].blocks, runs[r].i) = 0
    /\ \E h \in RasterHeights :
          runs' = [runs EXCEPT ![r] = Catch(PlaceImage(BreakPage(@, h), h))]
    /\ Finally(r)
    /\ UNCHANGED <<toolVars, includeCover, includeScreenshot, includeJson,
                   includeA11y, imgPreview, parseVars, otherVars>>

vars == <<parseVars, toolVars, modalVars, runs, otherVars>>

\* useState initial values of PdfPreviewModal, no call of generatePdf yet
ModalInit ==
    /\ includeCover = TRUE
    /\ includeScreenshot = TRUE
    /\ includeJson = TRUE
    /\ includeA11y = TRUE
    /\ isGenerating = FALSE
    /\ imgPreview = FALSE
    /\ runs = [r \in 1..MaxRuns |-> IdleRun]

\* WebUITool after construction
AppInit ==
    /\ image = FALSE
    /\ result = <<>>
    /\ loading = FALSE
    /\ isPdfModalOpen = FALSE
    /\ inst = 0
    /\ ModalInit

\* WebUITool showing a result (an analysis returned or a history item was
\* loaded), with or without a screenshot file; the modal is mounted, closed
ResultInit ==
    /\ image \in BOOLEAN
    /\ result \in ReportDocs
    /\ loading = FALSE
    /\ isPdfModalOpen = FALSE
    /\ inst = 1
    /\ ModalInit

\* the parser is used as a function by the export
ParseIdle ==
    /\ markdown = <<>>
    /\ parsed = <<>>
    /\ ppc = "parsed"

\* the renders of the section filter are followed by SpecFilter only
FilterIdle ==
    /\ dataSections = <<>>
    /\ shownSections = <<>>

\* no handleRun call in flight; outcome: how the last call ended
NoRun == [active |-> FALSE, task |-> <<>>, history |-> <<>>, outcome |-> "none"]

\* the history is followed by SpecHistory only
HistoryIdle ==
    /\ history = <<>>
    /\ stored = [present |-> FALSE, items |-> <<>>]
    /\ now = 0
    /\ pending = NoRun

\* no call of runUniversalInterface
SvcIdle ==
    svc = [pc |-> "idle", task |-> <<>>, url |-> <<>>, calls |-> <<>>,
           primaryFailed |-> FALSE,
           primaryError |-> [hasMessage |-> FALSE, message |-> <<>>, status |-> 0],
           out |-> <<>>]

\* the form is followed by SpecForm only
FormIdle ==
    /\ task = <<>>
    /\ error = <<>>
    /\ orphan = NoRun

\* the chat panel is followed by SpecChat only
ChatIdle ==
    /\ messages = <<>>
    /\ chatLoading = FALSE
    /\ analysisContext = <<>>
    /\ chatCall = [active |-> FALSE, analysisContext |-> <<>>,
                   newMessage |-> <<>>, history |-> <<>>]

\* speech is followed by SpecSpeech only
SpeechIdle ==
    /\ speechState = "idle"
    /\ speechRef = 0
    /\ utterances = <<>>

LaterIdle == SvcIdle /\ FormIdle /\ ChatIdle /\ SpeechIdle

\* the steps of generatePdf
Export ==
    \E r \in 1..MaxRuns :
       \/ generatePdf(r)
       \/ ScreenshotThrows(r)
       \/ html2canvasRejects(r)
       \/ getImagePropertiesThrows(r)
       \/ addImageThrows(r)
       \/ PlaceBlock(r)
       \/ saveThrows(r)

\* The export dialog of one report: every control of the modal and every
\* step of the export.
Init == ResultInit /\ ParseIdle /\ FilterIdle /\ HistoryIdle /\ LaterIdle

Next ==
    \/ OpenPdfModal
    \/ ClosePdfModal
    \/ ImgPreviewLoaded
    \/ ToggleCover
    \/ ToggleScreenshot
    \/ ToggleJson
    \/ ToggleA11y
    \/ Export

Spec == Init /\ [][Next]_vars

\* what follows an await of html2canvas once its promise has settled
AwaitSettles(r) ==
    \/ html2canvasRejects(r)
    \/ getImagePropertiesThrows(r)
    \/ addImageThrows(r)
    \/ PlaceBlock(r)
    \/ saveThrows(r)

\* The export dialog when every awaited rasterization resolves or rejects:
\* the continuation of a settled promise is run by the event loop.
SpecLive == Init /\ [][Next]_vars /\ \A r \in 1..MaxRuns : WF_vars(AwaitSettles(r))

\* The export across analyses: a new analysis unmounts the modal and the
\* next result mounts a new instance of it.
InitApp == AppInit /\ ParseIdle /\ FilterIdle /\ HistoryIdle /\ LaterIdle

NextApp ==
    \/ handleFileChange
    \/ handleRun
    \/ AnalysisResolved
    \/ AnalysisRejected
    \/ OpenPdfModal
    \/ ClosePdfModal
    \/ ImgPreviewLoaded
    \/ Export

SpecApp == InitApp /\ [][NextApp]_vars

InitParse == ParseInit /\ AppInit /\ FilterIdle /\ HistoryIdle /\ LaterIdle
NextParse == ParseCall
SpecParse == InitParse /\ [][NextParse]_vars


-----------------------------------------------------------------------------
(* Specification of the section filter *)

MaxSections == 2       \* sections of a generated report

\* section titles of generated reports: with and without the two keywords,
\* in several spellings
FilterTitles ==
    { <<"S", "t", "e", "p", "s">>,
      <<"3", ".", " ", "A", "u", "t", "o", "m", "a", "t", "i", "o", "n", " ",
        "J", "S", "O", "N">>,
      <<"A", "U", "T", "O", "M", "A", "T", "I", "O", "N", " ", "J", "S", "O",
        "N">>,
      <<"A", "u", "t", "o", "m", "a", "t", "i", "o", "n", " ", " ", "J", "S",
        "O", "N">>,
      <<"4", ".", " ", "A", "c", "c", "e", "s", "s", "i", "b", "i", "l", "i",
        "t", "y", " ", "N", "o", "t", "e", "s">>,
      <<"a", "c", "c", "e", "s", "s", "i", "b", "i", "l", "i", "t", "y", " ",
        "/", " ", "a", "u", "t", "o", "m", "a", "t", "i", "o", "n", " ", "j",
        "s", "o", "n">> }

\* a report with one headed section per title, each with a line of content
FilterDoc(titles) ==
    JoinNL([k \in 1..(2 * Len(titles)) |->
               IF k % 2 = 1 THEN HeadingMarker \o titles[(k + 1) \div 2]
               ELSE <<"x">>])

FilterDocs ==
    {FilterDoc(ts) : ts \in UNION {[1..n -> FilterTitles] : n \in 1..MaxSections}}

\* const filteredSections = data.sections.filter(...) of the render that
\* follows a state update
Render == shownSections' = filteredSections(dataSections, includeJson', includeA11y')

setIncludeCover ==
    /\ Shown
    /\ includeCover' = ~includeCover
    /\ UNCHANGED <<includeScreenshot, includeJson, includeA11y>>
    /\ Render
    /\ UNCHANGED <<parseVars, toolVars, isGenerating, imgPreview, runs,
                   dataSections, historyVars, laterVars>>

setIncludeScreenshot ==
    /\ Shown
    /\ imgPreview
    /\ includeScreenshot' = ~includeScreenshot
    /\ UNCHANGED <<includeCover, includeJson, includeA11y>>
    /\ Render
    /\ UNCHANGED <<parseVars, toolVars, isGenerating, imgPreview, runs,
                   dataSections, historyVars, laterVars>>

setIncludeJson ==
    /\ Shown
    /\ includeJson' = ~includeJson
    /\ UNCHANGED <<includeCover, includeScreenshot, includeA11y>>
    /\ Render
    /\ UNCHANGED <<parseVars, toolVars, isGenerating, imgPreview, runs,
                   dataSections, historyVars, laterVars>>

setIncludeA11y ==
    /\ Shown
    /\ includeA11y' = ~includeA11y
    /\ UNCHANGED <<includeCover, includeScreenshot, includeJson>>
    /\ Render
    /\ UNCHANGED <<parseVars, toolVars, isGenerating, imgPreview, runs,
                   dataSections, historyVars, laterVars>>

\* The opened modal of a report, its screenshot loaded, and the renders that
\* follow the content options.
InitFilter ==
    /\ image = TRUE
    /\ result \in FilterDocs
    /\ loading = FALSE
    /\ isPdfModalOpen = TRUE
    /\ inst = 1
    /\ includeCover = TRUE
    /\ includeScreenshot = TRUE
    /\ includeJson = TRUE
    /\ includeA11y = TRUE
    /\ isGenerating = FALSE
    /\ imgPreview = TRUE
    /\ runs = [r \in 1..MaxRuns |-> IdleRun]
    /\ dataSections = parseSections(result)
    /\ shownSections = filteredSections(dataSections, includeJson, includeA11y)
    /\ ParseIdle
    /\ HistoryIdle
    /\ LaterIdle

NextFilter ==
    \/ setIncludeCover
    \/ setIncludeScreenshot
    \/ setIncludeJson
    \/ setIncludeA11y

SpecFilter == InitFilter /\ [][NextFilter]_vars

-----------------------------------------------------------------------------
(* History of analyses (WebUITool) *)

HistoryCap  == 20      \* [newItem, ...history].slice(0, 20)
MaxAnalyses == 2       \* analyses answered in one behaviour

Digits == <<"0", "1", "2", "3", "4", "5", "6", "7", "8", "9">>

RECURSIVE toString(_)
\* Number.prototype.toString of a non-negative integer
toString(n) ==
    IF n < 10 THEN <<Digits[n + 1]>>
    ELSE toString(n \div 10) \o <<Digits[(n % 10) + 1]>>

\* array.slice(0, end)
slice(s, end) == SubSeq(s, 1, IF Len(s) < end THEN Len(s) ELSE end)

\* task prompts and reports by number
Task(k)   == <<"t">> \o toString(k)
Report(k) == <<"#">> \o toString(k)

\* the entry saved at time k for task k answered by report k
SavedItem(k) ==
    [id |-> toString(k), timestamp |-> k, task |-> Task(k), result |-> Report(k)]

\* a history of n entries saved at times 1..n, newest first
SavedHistory(n) == [k \in 1..n |-> SavedItem(n + 1 - k)]

\* sizes of the history found in localStorage on mount
InitSizes == {0, 1, HistoryCap - 1, HistoryCap}

\* what the user asks and what the service answers: the oldest entry's
\* task and report, and a task and a report no entry has
HistoryTasks   == {Task(1), Task(HistoryCap + 1)}
HistoryReports == {Report(1), Report(HistoryCap + 1)}

\* const newItem = {...}
newItem(newResult, taskPrompt) ==
    [id |-> toString(now), timestamp |-> now,
     task |-> taskPrompt, result |-> newResult]

\* variant: only the most recent entry is compared
isDuplicate_latestOnly(hist, newResult, taskPrompt) ==
    hist # <<>> /\ hist[1].task = taskPrompt /\ hist[1].result = newResult

\* history.some(h => h.task === taskPrompt && h.result === newResult)
isDuplicate(hist, newResult, taskPrompt) ==
    \E k \in 1..Len(hist) :
        hist[k].task = taskPrompt /\ hist[k].result = newResult

\* variant: the list is not cut
updated_uncut(hist, item) == <<item>> \o hist

\* const updated = [newItem, ...history].slice(0, 20)
updated(hist, item) == slice(<<item>> \o hist, HistoryCap)

\* localStorage.setItem('uia_history', JSON.stringify(list)): the entry
\* holds the list (ids and texts are strings, timestamps integers, which
\* JSON.parse gives back as they were)
setItem(list) == [present |-> TRUE, items |-> list]

\* handleRun passes its checks and awaits the service; the call keeps the
\* task and the history of the render it was started from, the ones its
\* saveToHistory will use
RunStarted(t) ==
    /\ ~pending.active                    \* disabled={loading}
    /\ now < HistoryCap + 1 + MaxAnalyses
    /\ pending' = [active |-> TRUE, task |-> t, history |-> history,
                   outcome |-> "none"]
    /\ UNCHANGED <<history, stored, now>>
    /\ UNCHANGED <<parseVars, toolVars, modalVars, runs, filterVars, laterVars>>

\* the service answers: saveToHistory(response, task)
RunResolved(response) ==
    /\ pending.active
    /\ IF isDuplicate(pending.history, response, pending.task)
       THEN /\ UNCHANGED <<history, stored>>               \* return
            /\ pending' = [NoRun EXCEPT !.outcome = "duplicate"]
       ELSE /\ history' = updated(pending.history, newItem(response, pending.task))
            /\ stored' = setItem(history')
            /\ pending' = [NoRun EXCEPT !.outcome = "saved"]
    /\ now' = now + 1
    /\ UNCHANGED <<parseVars, toolVars, modalVars, runs, filterVars, laterVars>>

\* the service fails: nothing is saved
RunRejected ==
    /\ pending.active
    /\ pending' = [NoRun EXCEPT !.outcome = "failed"]
    /\ UNCHANGED <<history, stored, now>>
    /\ UNCHANGED <<parseVars, toolVars, modalVars, runs, filterVars, laterVars>>

\* Clear All: window.confirm, then setHistory([]) and removeItem
clearHistory(confirmed) ==
    /\ history # <<>>
    /\ IF confirmed
       THEN /\ history' = <<>>
            /\ stored' = [present |-> FALSE, items |-> <<>>]
       ELSE UNCHANGED <<history, stored>>
    /\ UNCHANGED <<now, pending>>
    /\ UNCHANGED <<parseVars, toolVars, modalVars, runs, filterVars, laterVars>>

\* entries whose delete button is clicked: the newest and the oldest
DeleteTargets == {1, Len(history)} \cap (1..Len(history))

\* the delete button of an entry
deleteHistoryItem(id) ==
    /\ LET Others(item) == item.id # id
       IN history' = SelectSeq(history, Others)
    /\ stored' = setItem(history')
    /\ UNCHANGED <<now, pending>>
    /\ UNCHANGED <<parseVars, toolVars, modalVars, runs, filterVars, laterVars>>

\* WebUITool mounted: the effect has loaded the stored history
InitHistory ==
    /\ \E n \in InitSizes :
          /\ history = SavedHistory(n)
          /\ stored = IF n = 0 THEN [present |-> FALSE, items |-> <<>>]
                      ELSE setItem(SavedHistory(n))
    /\ now = HistoryCap + 1
    /\ pending = NoRun
    /\ AppInit
    /\ ParseIdle
    /\ FilterIdle
    /\ LaterIdle

NextHistory ==
    \/ \E t \in HistoryTasks : RunStarted(t)
    \/ \E response \in HistoryReports : RunResolved(response)
    \/ RunRejected
    \/ \E confirmed \in BOOLEAN : clearHistory(confirmed)
    \/ \E k \in DeleteTargets : deleteHistoryItem(history[k].id)

SpecHistory == InitHistory /\ [][NextHistory]_vars

-----------------------------------------------------------------------------
(* runUniversalInterface (services/gemini.ts) *)

Pro   == "gemini-3-pro-preview"
Flash == "gemini-2.0-flash-exp"

NotFoundStatus == 404

Text404 == <<"4", "0", "4">>
TextNotFound == <<"n", "o", "t", " ", "f", "o", "u", "n", "d">>
NoResponseGenerated == <<"N", "o", " ", "r", "e", "s", "p", "o", "n", "s",
    "e", " ", "g", "e", "n", "e", "r", "a", "t", "e", "d", ".">>
UnableToProcess == <<"U", "n", "a", "b", "l", "e", " ", "t", "o", " ", "p",
    "r", "o", "c", "e", "s", "s", " ", "t", "h", "e", " ", "i", "m", "a",
    "g", "e", ".">>
NoneText == <<"n", "o", "n", "e">>

\* errors a rejected request or file read may carry: message (if any) and
\* status
ServiceErrors ==
    { [hasMessage |-> TRUE, message |-> <<"E", "r", "r", "o", "r", " ", "4", "0",
         "4">>, status |-> 0],
      [hasMessage |-> TRUE, message |-> <<"m", "o", "d", "e", "l", " ", "n", "o",
         "t", " ", "f", "o", "u", "n", "d">>, status |-> 0],
      [hasMessage |-> TRUE, message |-> <<"N", "o", "t", " ", "F", "o", "u", "n",
         "d">>, status |-> 404],
      [hasMessage |-> TRUE, message |-> <<"N", "o", "t", " ", "F", "o", "u", "n",
         "d">>, status |-> 0],
      [hasMessage |-> TRUE, message |-> <<"q", "u", "o", "t", "a">>, status |-> 429],
      [hasMessage |-> FALSE, message |-> <<>>, status |-> 404],
      [hasMessage |-> FALSE, message |-> <<>>, status |-> 500],
      [hasMessage |-> TRUE, message |-> <<>>, status |-> 500] }

\* task prompts and page URLs of a call; the URL is optional
SvcTasks == { <<"f", "i", "n", "d">>, <<"s", "u", "m">> }
SvcUrls  == { <<>>, <<"u", ".", "i", "o">> }

\* response.text of a resolved request: empty, or a report
SvcTexts == { <<>>, <<"#", "#", "#", " ", "A">> }

\* variant: every failure of the first request is retried
isNotFound_any(e) == TRUE

\* primaryError.message?.includes("404") || primaryError.status === 404 ||
\* primaryError.message?.includes("not found")
isNotFound(e) ==
    \/ e.hasMessage /\ includes(e.message, Text404)
    \/ e.status = NotFoundStatus
    \/ e.hasMessage /\ includes(e.message, TextNotFound)

\* a || b on strings
OrElse(a, b) == IF a # <<>> THEN a ELSE b

\* the request sent to ai.models.generateContent
Request(model) ==
    [model |-> model,
     task  |-> svc.task,
     url   |-> OrElse(svc.url, NoneText)]

\* throw new Error(err.message || "Unable to process the image.")
Rethrown(e) == OrElse(IF e.hasMessage THEN e.message ELSE <<>>, UnableToProcess)

NoError == [hasMessage |-> FALSE, message |-> <<>>, status |-> 0]

NoCall ==
    [pc |-> "idle", task |-> <<>>, url |-> <<>>, calls |-> <<>>,
     primaryFailed |-> FALSE, primaryError |-> NoError, out |-> <<>>]

svcRest == <<parseVars, toolVars, modalVars, runs, filterVars, historyVars,
             formVars, chatVars, speechVars>>

\* the call, up to await fileToBase64
runUniversalInterface(task_prompt, page_url) ==
    /\ svc.pc = "idle"
    /\ svc' = [NoCall EXCEPT !.pc = "base64", !.task = task_prompt,
                             !.url = page_url]
    /\ UNCHANGED svcRest

\* the file cannot be read: the outer catch
fileToBase64Rejects(e) ==
    /\ svc.pc = "base64"
    /\ svc' = [svc EXCEPT !.pc = "thrown", !.out = Rethrown(e)]
    /\ UNCHANGED svcRest

\* the file is read and the first request is sent
fileToBase64Resolves ==
    /\ svc.pc = "base64"
    /\ svc' = [svc EXCEPT !.pc = "primary", !.calls = <<Request(Pro)>>]
    /\ UNCHANGED svcRest

\* the first request resolves
PrimaryResolves(text) ==
    /\ svc.pc = "primary"
    /\ svc' = [svc EXCEPT !.pc = "returned",
                          !.out = OrElse(text, NoResponseGenerated)]
    /\ UNCHANGED svcRest

\* the first request rejects: the inner catch
PrimaryRejects(e) ==
    /\ svc.pc = "primary"
    /\ svc' = IF isNotFound(e)
              THEN [svc EXCEPT !.pc = "fallback", !.primaryFailed = TRUE,
                               !.primaryError = e,
                               !.calls = Append(@, Request(Flash))]
              ELSE [svc EXCEPT !.pc = "thrown", !.primaryFailed = TRUE,
                               !.primaryError = e, !.out = Rethrown(e)]
    /\ UNCHANGED svcRest

\* the second request resolves
FallbackResolves(text) ==
    /\ svc.pc = "fallback"
    /\ svc' = [svc EXCEPT !.pc = "returned",
                          !.out = OrElse(text, NoResponseGenerated)]
    /\ UNCHANGED svcRest

\* the second request rejects: it leaves the inner catch for the outer one
FallbackRejects(e) ==
    /\ svc.pc = "fallback"
    /\ svc' = [svc EXCEPT !.pc = "thrown", !.out = Rethrown(e)]
    /\ UNCHANGED svcRest

InitSvc ==
    /\ svc = NoCall
    /\ AppInit
    /\ ParseIdle
    /\ FilterIdle
    /\ HistoryIdle
    /\ FormIdle
    /\ ChatIdle
    /\ SpeechIdle

NextSvc ==
    \/ \E t \in SvcTasks, u \in SvcUrls : runUniversalInterface(t, u)
    \/ \E e \in ServiceErrors : fileToBase64Rejects(e)
    \/ fileToBase64Resolves
    \/ \E text \in SvcTexts : PrimaryResolves(text)
    \/ \E e \in ServiceErrors : PrimaryRejects(e)
    \/ \E text \in SvcTexts : FallbackResolves(text)
    \/ \E e \in ServiceErrors : FallbackRejects(e)

SpecSvc == InitSvc /\ [][NextSvc]_vars

-----------------------------------------------------------------------------
(* Speech playback (WebUITool) *)

MaxUtterances == 3     \* utterances created in one behaviour

\* an utterance in the engine: "speaking", "paused", "cancelled" (removed by
\* cancel(), its end event not delivered yet), "done" (its onend has run)
Live == {"speaking", "paused"}

\* window.speechSynthesis.cancel(): every utterance is removed; the engine
\* reports the end of a removed utterance by an event delivered later
cancel(us) == [u \in 1..Len(us) |-> IF us[u] \in Live THEN "cancelled" ELSE us[u]]

\* window.speechSynthesis.pause()
pause(us) == [u \in 1..Len(us) |-> IF us[u] = "speaking" THEN "paused" ELSE us[u]]

\* window.speechSynthesis.resume()
resume(us) == [u \in 1..Len(us) |-> IF us[u] = "paused" THEN "speaking" ELSE us[u]]

\* variant: the button of an idle player pauses
Toggled_pauseFirst(state) ==
    IF state = "idle" THEN "paused"
    ELSE IF state = "playing" THEN "paused" ELSE "playing"

\* the state toggleSpeech sets from each state
Toggled(state) ==
    IF state = "idle" THEN "playing"
    ELSE IF state = "playing" THEN "paused" ELSE "playing"

\* stopSpeech(): cancel, setSpeechState('idle'), speechRef.current = null
stopSpeech ==
    /\ utterances' = cancel(utterances)
    /\ speechState' = "idle"
    /\ speechRef' = 0

speechRest == <<parseVars, modalVars, runs, filterVars, historyVars, svcVars,
                formVars, chatVars>>

\* the Play/Pause button
toggleSpeech ==
    /\ result # <<>>
    /\ IF speechState = "idle"
       THEN /\ Len(utterances) < MaxUtterances
            /\ utterances' = Append(utterances, "speaking")
            /\ speechRef' = Len(utterances) + 1
       ELSE /\ utterances' = IF speechState = "playing" THEN pause(utterances)
                             ELSE resume(utterances)
            /\ speechRef' = speechRef
    /\ speechState' = Toggled(speechState)
    /\ UNCHANGED <<toolVars, speechRest>>

\* the Stop button, shown while speechState is not idle
StopControl ==
    /\ speechState # "idle"
    /\ stopSpeech
    /\ UNCHANGED <<toolVars, speechRest>>

\* a history entry is clicked: loadHistoryItem sets the result and stops
\* speech
LoadItemStops ==
    /\ \E doc \in ReportDocs : result' = doc
    /\ stopSpeech
    /\ UNCHANGED <<image, loading, isPdfModalOpen, inst, speechRest>>

\* the engine finishes an utterance it is speaking, or delivers the end
\* event of one that cancel() removed: utter.onend runs
onend(u) ==
    /\ utterances[u] \in {"speaking", "cancelled"}
    /\ utterances' = [utterances EXCEPT ![u] = "done"]
    /\ speechState' = "idle"
    /\ speechRef' = 0
    /\ UNCHANGED <<toolVars, speechRest>>

\* WebUITool showing a result, nothing spoken yet
InitSpeech ==
    /\ SpeechIdle
    /\ ResultInit
    /\ ParseIdle
    /\ FilterIdle
    /\ HistoryIdle
    /\ SvcIdle
    /\ FormIdle
    /\ ChatIdle

NextSpeech ==
    \/ toggleSpeech
    \/ StopControl
    \/ LoadItemStops
    \/ \E u \in 1..Len(utterances) : onend(u)

SpecSpeech == InitSpeech /\ [][NextSpeech]_vars

-----------------------------------------------------------------------------
(* The analysis form (WebUITool): handleRun, the history and New Chat *)

PleaseUpload == <<"P", "l", "e", "a", "s", "e", " ", "u", "p", "l", "o", "a",
    "d", " ", "a", " ", "w", "e", "b", "s", "i", "t", "e", " ", "s", "c",
    "r", "e", "e", "n", "s", "h", "o", "t", ".">>
PleaseDescribe == <<"P", "l", "e", "a", "s", "e", " ", "d", "e", "s", "c",
    "r", "i", "b", "e", " ", "t", "h", "e", " ", "t", "a", "s", "k", " ",
    "y", "o", "u", " ", "w", "a", "n", "t", " ", "t", "o", " ", "p", "e",
    "r", "f", "o", "r", "m", ".">>
AnErrorOccurred == <<"A", "n", " ", "e", "r", "r", "o", "r", " ", "o", "c",
    "c", "u", "r", "r", "e", "d", " ", "w", "h", "i", "l", "e", " ", "a",
    "n", "a", "l", "y", "z", "i", "n", "g", " ", "t", "h", "e", " ", "i",
    "n", "t", "e", "r", "f", "a", "c", "e", ".", " ", "P", "l", "e", "a",
    "s", "e", " ", "t", "r", "y", " ", "a", "g", "a", "i", "n", ".">>

\* what the user types into the task field: nothing, a blank, the task of
\* the oldest stored entry
FormTasks == {<<>>, <<" ">>, Task(1)}

\* messages of the errors runUniversalInterface throws
FormErrors ==
    {Rethrown(e) : e \in {NoError} \cup {x \in ServiceErrors : ~isNotFound(x)}}

\* sizes of the history found in localStorage on mount
FormSizes == {0, 1}

formRest == <<parseVars, modalVars, runs, filterVars, svcVars, chatVars>>

\* the file input or a drop
selectFile ==
    /\ image' = TRUE
    /\ error' = <<>>
    /\ UNCHANGED <<result, loading, isPdfModalOpen, inst, task, orphan,
                   historyVars, speechVars, formRest>>

\* typing into the task field
setTask(t) ==
    /\ task' = t
    /\ UNCHANGED <<toolVars, error, orphan, historyVars, speechVars, formRest>>

\* variant: the task is not trimmed before it is tested
handleRunChecked_noTrim ==
    /\ ~loading
    /\ IF ~image
       THEN /\ error' = PleaseUpload
            /\ UNCHANGED <<loading, result, pending, speechVars>>
       ELSE IF task = <<>>
       THEN /\ error' = PleaseDescribe
            /\ UNCHANGED <<loading, result, pending, speechVars>>
       ELSE /\ now < HistoryCap + 1 + MaxAnalyses
            /\ loading' = TRUE
            /\ result' = <<>>
            /\ error' = <<>>
            /\ stopSpeech
            /\ pending' = [active |-> TRUE, task |-> task, history |-> history,
                           outcome |-> "none"]
    /\ UNCHANGED <<image, isPdfModalOpen, inst, task, orphan, history, stored,
                   now, formRest>>

\* the Run button: handleRun with its two checks, up to the await of the
\* service
handleRunChecked ==
    /\ ~loading                              \* disabled={loading}
    /\ IF ~image
       THEN /\ error' = PleaseUpload
            /\ UNCHANGED <<loading, result, pending, speechVars>>
       ELSE IF Trim(task) = <<>>
       THEN /\ error' = PleaseDescribe
            /\ UNCHANGED <<loading, result, pending, speechVars>>
       ELSE /\ now < HistoryCap + 1 + MaxAnalyses
            /\ loading' = TRUE
            /\ result' = <<>>
            /\ error' = <<>>
            /\ stopSpeech
            /\ pending' = [active |-> TRUE, task |-> task, history |-> history,
                           outcome |-> "none"]
    /\ UNCHANGED <<image, isPdfModalOpen, inst, task, orphan, history, stored,
                   now, formRest>>

\* the service answers: setResult(response), saveToHistory(response, task),
\* setLoading(false)
FormResolved(response) ==
    /\ pending.active
    /\ result' = response
    /\ IF isDuplicate(pending.history, response, pending.task)
       THEN /\ UNCHANGED <<history, stored>>
            /\ pending' = [NoRun EXCEPT !.outcome = "duplicate"]
       ELSE /\ history' = updated(pending.history, newItem(response, pending.task))
            /\ stored' = setItem(history')
            /\ pending' = [NoRun EXCEPT !.outcome = "saved"]
    /\ now' = now + 1
    /\ loading' = FALSE
    /\ UNCHANGED <<image, isPdfModalOpen, inst, task, error, orphan,
                   speechVars, formRest>>

\* the service throws: setError(err.message || ...), setLoading(false)
FormRejected(message) ==
    /\ pending.active
    /\ error' = OrElse(message, AnErrorOccurred)
    /\ pending' = [NoRun EXCEPT !.outcome = "failed"]
    /\ loading' = FALSE
    /\ UNCHANGED <<image, result, isPdfModalOpen, inst, task, orphan, history,
                   stored, now, speechVars, formRest>>

\* a click on entry k of the history list
loadHistoryItem(k) ==
    /\ task' = history[k].task
    /\ result' = history[k].result
    /\ stopSpeech
    /\ UNCHANGED <<image, loading, isPdfModalOpen, inst, error, orphan,
                   historyVars, formRest>>

\* New Chat: App changes the key of WebUITool; the instance is unmounted, a
\* call of its handleRun that awaits the service goes on without it, and a
\* new instance mounts and loads the stored history
NewChat ==
    /\ ~orphan.active
    /\ orphan' = pending
    /\ pending' = NoRun
    /\ image' = FALSE
    /\ task' = <<>>
    /\ loading' = FALSE
    /\ result' = <<>>
    /\ error' = <<>>
    /\ speechState' = "idle"
    /\ speechRef' = 0
    /\ history' = IF stored.present THEN stored.items ELSE <<>>
    /\ UNCHANGED <<isPdfModalOpen, inst, stored, now, utterances, formRest>>

\* the service answers a call of an unmounted instance: its state setters
\* do nothing, its saveToHistory writes localStorage
OrphanResolved(response) ==
    /\ orphan.active
    /\ IF isDuplicate(orphan.history, response, orphan.task)
       THEN UNCHANGED stored
       ELSE stored' = setItem(updated(orphan.history, newItem(response, orphan.task)))
    /\ now' = now + 1
    /\ orphan' = NoRun
    /\ UNCHANGED <<toolVars, task, error, history, pending, speechVars, formRest>>

\* the service throws to a call of an unmounted instance
OrphanRejected ==
    /\ orphan.active
    /\ orphan' = NoRun
    /\ UNCHANGED <<toolVars, task, error, historyVars, speechVars, formRest>>

\* WebUITool mounted: the effect has loaded the stored history
InitForm ==
    /\ \E n \in FormSizes :
          /\ history = SavedHistory(n)
          /\ stored = IF n = 0 THEN [present |-> FALSE, items |-> <<>>]
                      ELSE setItem(SavedHistory(n))
    /\ now = HistoryCap + 1
    /\ pending = NoRun
    /\ FormIdle
    /\ AppInit
    /\ ParseIdle
    /\ FilterIdle
    /\ SvcIdle
    /\ ChatIdle
    /\ SpeechIdle

NextForm ==
    \/ selectFile
    \/ \E t \in FormTasks : setTask(t)
    \/ handleRunChecked
    \/ \E response \in HistoryReports : FormResolved(response)
    \/ \E message \in FormErrors : FormRejected(message)
    \/ \E k \in 1..Len(history) : loadHistoryItem(k)
    \/ \E confirmed \in BOOLEAN : clearHistory(confirmed)
    \/ \E k \in DeleteTargets : deleteHistoryItem(history[k].id)
    \/ NewChat
    \/ \E response \in HistoryReports : OrphanResolved(response)
    \/ OrphanRejected

SpecForm == InitForm /\ [][NextForm]_vars

-----------------------------------------------------------------------------
(* The follow-up chat (ChatPanel, runFollowUpChat) *)

MaxMessages == 12      \* messages in the list before sending stops

ApiWindow == 10        \* newMessages.slice(-10)

NoChatResponse == <<"I", " ", "c", "o", "u", "l", "d", "n", "'", "t", " ",
    "g", "e", "n", "e", "r", "a", "t", "e", " ", "a", " ", "r", "e", "s",
    "p", "o", "n", "s", "e", ".">>
SorryNoResponse == <<"S", "o", "r", "r", "y", ",", " ", "I", " ", "c", "o",
    "u", "l", "d", "n", "'", "t", " ", "g", "e", "t", " ", "a", " ", "r",
    "e", "s", "p", "o", "n", "s", "e", ".", " ", "P", "l", "e", "a", "s",
    "e", " ", "t", "r", "y", " ", "a", "g", "a", "i", "n", ".">>

\* what the user types into the chat input
ChatInputs == {<<" ">>, <<" ", "h", "i", " ">>}

\* result.text of the chat service: absent or a reply
ChatTexts == {<<>>, <<"o", "k">>}

\* the analyses the panel is shown for
ChatContexts == HistoryReports

\* array.slice(-n)
sliceLast(s, n) == SubSeq(s, IF Len(s) > n THEN Len(s) - n + 1 ELSE 1, Len(s))

\* array.slice(0, -1)
sliceButLast(s) == SubSeq(s, 1, Len(s) - 1)

\* const apiHistory = newMessages.slice(-10).slice(0, -1)
apiHistory(newMessages) == sliceButLast(sliceLast(newMessages, ApiWindow))

NoChat ==
    [active |-> FALSE, analysisContext |-> <<>>, newMessage |-> <<>>,
     history |-> <<>>]

chatRest == <<parseVars, toolVars, modalVars, runs, filterVars, historyVars,
              svcVars, formVars, speechVars>>

\* handleSend up to the await of runFollowUpChat
handleSend(input) ==
    /\ Trim(input) # <<>>
    /\ ~chatLoading
    /\ Len(messages) < MaxMessages
    /\ LET userMsgText == Trim(input)
           newMessages == Append(messages, [role |-> "user", text |-> userMsgText])
       IN  /\ messages' = newMessages
           /\ chatLoading' = TRUE
           /\ chatCall' = [active |-> TRUE, analysisContext |-> analysisContext,
                           newMessage |-> userMsgText,
                           history |-> apiHistory(newMessages)]
    /\ UNCHANGED <<analysisContext, chatRest>>

\* runFollowUpChat returns result.text || "I couldn't generate a response.";
\* setMessages(prev => [...prev, ...]) and finally setLoading(false)
ChatResolves(text) ==
    /\ chatCall.active
    /\ messages' = Append(messages, [role |-> "model",
                                     text |-> OrElse(text, NoChatResponse)])
    /\ chatLoading' = FALSE
    /\ chatCall' = NoChat
    /\ UNCHANGED <<analysisContext, chatRest>>

\* runFollowUpChat throws: the catch of handleSend and its finally
ChatRejects ==
    /\ chatCall.active
    /\ messages' = Append(messages, [role |-> "model", text |-> SorryNoResponse])
    /\ chatLoading' = FALSE
    /\ chatCall' = NoChat
    /\ UNCHANGED <<analysisContext, chatRest>>

\* the Clear Chat button, shown while the list is not empty
ClearChat ==
    /\ messages # <<>>
    /\ messages' = <<>>
    /\ UNCHANGED <<chatLoading, analysisContext, chatCall, chatRest>>

\* loadHistoryItem shows another result: the panel stays mounted, its prop
\* changes and the effect on [analysisContext] empties the list
ContextChanged(context) ==
    /\ context # analysisContext
    /\ analysisContext' = context
    /\ messages' = <<>>
    /\ UNCHANGED <<chatLoading, chatCall, chatRest>>

\* handleRun: setResult(null) unmounts the panel, setResult(response) mounts
\* a new one; a call the old one awaits sets nothing
ChatRemounted(context) ==
    /\ analysisContext' = context
    /\ messages' = <<>>
    /\ chatLoading' = FALSE
    /\ chatCall' = NoChat
    /\ UNCHANGED chatRest

\* a result is on display and the panel is mounted for it
InitChat ==
    /\ messages = <<>>
    /\ chatLoading = FALSE
    /\ analysisContext \in ChatContexts
    /\ chatCall = NoChat
    /\ ResultInit
    /\ ParseIdle
    /\ FilterIdle
    /\ HistoryIdle
    /\ SvcIdle
    /\ FormIdle
    /\ SpeechIdle

NextChat ==
    \/ \E input \in ChatInputs : handleSend(input)
    \/ \E text \in ChatTexts : ChatResolves(text)
    \/ ChatRejects
    \/ ClearChat
    \/ \E context \in ChatContexts : ContextChanged(context)
    \/ \E context \in ChatContexts : ChatRemounted(context)

SpecChat == InitChat /\ [][NextChat]_vars

-----------------------------------------------------------------------------
(* Properties of the export *)

Active == {r \in 1..MaxRuns : runs[r].pc # "idle"}

\* images of content blocks drawn by a call, as <<page, position on the page>>
BlockImages(run) ==
    {pk \in (1..Len(run.pdf.pages)) \X (1..Len(run.blocks) + 1) :
        /\ pk[2] <= Len(run.pdf.pages[pk[1]])
        /\ run.pdf.pages[pk[1]][pk[2]].src # 0}

ImageAt(run, pk) == run.pdf.pages[pk[1]][pk[2]]

\* the call has drawn the dedicated screenshot page
HasScreenshotPage(run) ==
    /\ Len(run.pdf.pages) >= 2
    /\ run.pdf.pages[2] # <<>>
    /\ run.pdf.pages[2][1].src = 0

IsPrefix(s, t) == Len(s) <= Len(t) /\ SubSeq(t, 1, Len(s)) = s

\* the step of call r draws one more content block
PlacesBlock(r) ==
    /\ runs[r].pc = "raster"
    /\ Cardinality(BlockImages(runs'[r])) = Cardinality(BlockImages(runs[r])) + 1

\* C1, step: a block is placed after a page break (a new last page, at the
\* top margin) exactly when cursorY + height > pageHeight - margin, and
\* otherwise at the current cursorY on the current page.
C1_PlaceStep ==
    \A r \in 1..MaxRuns :
        PlacesBlock(r) =>
            LET old == runs[r]
                new == runs'[r]
                img == new.pdf.pages[new.pdf.cur][Len(new.pdf.pages[new.pdf.cur])]
            IN IF old.cursorY + img.h > pageHeight - margin
               THEN /\ Len(new.pdf.pages) = Len(old.pdf.pages) + 1
                    /\ new.pdf.cur = Len(new.pdf.pages)
                    /\ new.pdf.pages[new.pdf.cur] = <<img>>
                    /\ img.y = margin
               ELSE /\ Len(new.pdf.pages) = Len(old.pdf.pages)
                    /\ new.pdf.cur = old.pdf.cur
                    /\ img.y = old.cursorY

\* C1, state: a placed block no taller than pageHeight - 2*margin ends at or
\* above the bottom margin, and no block is drawn twice (so never on two
\* pages).
C1_Fits ==
    \A r \in Active :
        /\ \A pk \in BlockImages(runs[r]) :
              ImageAt(runs[r], pk).h <= pageHeight - 2 * margin
                  => ImageAt(runs[r], pk).y + ImageAt(runs[r], pk).h
                         <= pageHeight - margin
        /\ \A pk, ql \in BlockImages(runs[r]) :
              ImageAt(runs[r], pk).src = ImageAt(runs[r], ql).src => pk = ql

\* C1: fit-or-move pagination of generatePdf: a block is moved to a new page
\* exactly when it would cross the bottom margin of the current one, else it is
\* placed at the cursor; every block that can fit a page lies within the
\* margins, and no block is drawn on more than one page.
C1_FitOrMove == []C1_Fits /\ [][C1_PlaceStep]_vars

\* C1 witness: a finished export that placed one block below another on a
\* page and moved a later block to a new page.
C1_Witness ==
    \E r \in Active :
        /\ runs[r].pc = "done"
        /\ \E pk, ql \in BlockImages(runs[r]) :
              /\ ImageAt(runs[r], pk).y > margin
              /\ ql[1] > pk[1]
              /\ ImageAt(runs[r], ql).y = margin

\* C2: whenever includeScreenshot is on and the screenshot image is loaded
\* when the export is triggered, the export has the dedicated screenshot page
\* as page 2, with or without the cover.
C2_ScreenshotPageAlways ==
    \A r \in Active :
        (runs[r].pc \in {"raster", "done"}
            /\ runs[r].includeScreenshot /\ runs[r].imgPreview)
            => HasScreenshotPage(runs[r])

\* C3: when generatePdf has returned, by saving or by failing, the temporary
\* off-screen subtree is no longer attached to the document.
C3_TempRemoved ==
    \A r \in Active : runs[r].pc \in {"done", "failed"} => ~runs[r].temp

\* C7, state: with a screenshot page, page 2 holds the screenshot only, the
\* flow is never on page 2 and starts on page 1, and blocks lie on
\* non-decreasing pages in document order.
C7_FlowAroundScreenshot ==
    \A r \in Active :
        HasScreenshotPage(runs[r]) =>
            /\ \A k \in 1..Len(runs[r].pdf.pages[2]) :
                  runs[r].pdf.pages[2][k].src = 0
            /\ runs[r].pdf.cur # 2
            /\ (runs[r].pc = "raster" /\ BlockImages(runs[r]) = {})
                  => runs[r].pdf.cur = 1
            /\ \A pk, ql \in BlockImages(runs[r]) :
                  ImageAt(runs[r], pk).src < ImageAt(runs[r], ql).src
                      => pk[1] <= ql[1]

\* C7, step: pages of a document are only appended and drawn on: none is
\* removed, moved or emptied, and a page break goes to the appended page.
C7_PagesKept ==
    \A r \in 1..MaxRuns :
        (runs[r].pc = "raster" /\ HasScreenshotPage(runs[r])) =>
            /\ Len(runs'[r].pdf.pages) >= Len(runs[r].pdf.pages)
            /\ \A p \in 1..Len(runs[r].pdf.pages) :
                  IsPrefix(runs[r].pdf.pages[p], runs'[r].pdf.pages[p])
            /\ Len(runs'[r].pdf.pages) > Len(runs[r].pdf.pages)
                  => runs'[r].pdf.cur = Len(runs'[r].pdf.pages)

\* C7: after the screenshot page is inserted the content flow starts on page
\* 1 and continues on appended pages 3, 4, ...: no block on page 2, block
\* pages non-decreasing in document order, pages never reordered or removed.
C7_ScreenshotSlot == []C7_FlowAroundScreenshot /\ [][C7_PagesKept]_vars

\* C7 witness: a saved document with the screenshot on page 2, a block on
\* page 1 and a block on page 3.
C7_Witness ==
    \E r \in Active :
        /\ runs[r].pc = "done"
        /\ HasScreenshotPage(runs[r])
        /\ \E pk, ql \in BlockImages(runs[r]) : pk[1] = 1 /\ ql[1] = 3

RECURSIVE FlowHeight(_)
\* sum of height + 5 over the content blocks of a page
FlowHeight(imgs) ==
    IF imgs = <<>> THEN 0
    ELSE (IF Head(imgs).src # 0 THEN Head(imgs).h + 5 ELSE 0)
         + FlowHeight(Tail(imgs))

\* C8: cursorY is the top margin plus the sum of (height + 5) over the blocks
\* placed on the current page since the last page break, every block sits at
\* the value the cursor had for it, and the first block of a page started by
\* a page break sits at the top margin exactly.
C8_CursorInvariant ==
    \A r \in Active :
        /\ runs[r].cursorY
              = 20 + FlowHeight(runs[r].pdf.pages[runs[r].pdf.cur])
        /\ \A pk \in BlockImages(runs[r]) :
              ImageAt(runs[r], pk).y
                  = 20 + FlowHeight(SubSeq(runs[r].pdf.pages[pk[1]], 1, pk[2] - 1))

\* C8 witness: after a page break, two blocks placed on the new page.
C8_Witness ==
    \E r \in Active :
        /\ runs[r].pdf.cur >= 2
        /\ Len(runs[r].pdf.pages[runs[r].pdf.cur]) >= 2
        /\ runs[r].cursorY > 20

\* every block with visible text has been drawn
AllPlaced(run) ==
    \A j \in 1..Len(run.blocks) :
        run.blocks[j].text
            => \E pk \in BlockImages(run) : ImageAt(run, pk).src = j

\* C9: a failed export saves no file, not even one with the blocks placed so
\* far, and shows the alert; a file is saved only once every non-empty block
\* is placed, and then no failure is reported.
C9_AtomicFailure ==
    \A r \in Active :
        /\ runs[r].pc = "failed" => (~runs[r].saved /\ runs[r].alerted)
        /\ runs[r].saved =>
              (runs[r].pc = "done" /\ ~runs[r].alerted /\ AllPlaced(runs[r]))

\* C9 witness: an export that failed after placing some blocks.
C9_Witness ==
    \E r \in Active :
        /\ runs[r].pc = "failed"
        /\ BlockImages(runs[r]) # {}
        /\ ~AllPlaced(runs[r])
        /\ runs[r].alerted
        /\ ~runs[r].saved

\* C10: at most one call of generatePdf is in flight at any time: no second
\* call starts and interleaves with one that has not yet completed or failed.
C10_OneExportInFlight ==
    Cardinality({r \in 1..MaxRuns : runs[r].pc = "raster"}) <= 1

-----------------------------------------------------------------------------
(* Properties of the export loop *)

\* blocks with visible text that the call has drawn
PlacedBlocks(run) == {ImageAt(run, pk).src : pk \in BlockImages(run)}

TextBlocks(run) == {j \in 1..Len(run.blocks) : run.blocks[j].text}

\* C11, state: while block i is awaited exactly the text blocks before i are
\* drawn; a saved document holds every text block; each is drawn once, as
\* one image on one page, and later blocks lie later in the document.
C11_PlacedInOrder ==
    \A r \in Active :
        /\ runs[r].pc = "raster" =>
              /\ runs[r].i \in TextBlocks(runs[r])
              /\ PlacedBlocks(runs[r])
                    = {j \in TextBlocks(runs[r]) : j < runs[r].i}
        /\ runs[r].pc = "done" => PlacedBlocks(runs[r]) = TextBlocks(runs[r])
        /\ \A j \in PlacedBlocks(runs[r]) :
              \A k \in TextBlocks(runs[r]) : k < j => k \in PlacedBlocks(runs[r])
        /\ \A pk, ql \in BlockImages(runs[r]) :
              /\ ImageAt(runs[r], pk).src = ImageAt(runs[r], ql).src => pk = ql
              /\ ImageAt(runs[r], pk).src < ImageAt(runs[r], ql).src
                    => (pk[1] < ql[1] \/ (pk[1] = ql[1] /\ pk[2] < ql[2]))

\* C11, step: a step of a call draws at most one block, the one it awaited,
\* and only then awaits a later one.
C11_OneAtATime ==
    \A r \in 1..MaxRuns :
        runs[r].pc = "raster" =>
            /\ PlacedBlocks(runs'[r]) \in
                  {PlacedBlocks(runs[r]), PlacedBlocks(runs[r]) \cup {runs[r].i}}
            /\ runs'[r].pc = "raster" =>
                  (runs'[r].i = runs[r].i
                   \/ (runs'[r].i > runs[r].i
                       /\ runs[r].i \in PlacedBlocks(runs'[r])))

\* C11: blocks are rasterized one at a time in document order, the next one
\* only after the previous one is placed; every block with visible text is
\* placed exactly once, in document order, and a block taller than a page is
\* placed whole on one page.
C11_SequentialPlacement == []C11_PlacedInOrder /\ [][C11_OneAtATime]_vars

\* C11 witness: a saved document of at least three blocks, one of them
\* taller than the printable height of a page.
C11_Witness ==
    \E r \in Active :
        /\ runs[r].pc = "done"
        /\ Cardinality(BlockImages(runs[r])) >= 3
        /\ \E pk \in BlockImages(runs[r]) :
              ImageAt(runs[r], pk).h > pageHeight - 2 * margin

-----------------------------------------------------------------------------
(* Blocks without visible text *)

EmptyBlocks(run) == {j \in 1..Len(run.blocks) : ~run.blocks[j].text}

\* C18, state: no block without text is awaited or drawn, and before the
\* first block with text is placed the cursor is at the top margin of page 1
\* and no page has been appended for the flow.
C18_EmptyNotDrawn ==
    \A r \in Active :
        /\ runs[r].pc = "raster" => runs[r].i \notin EmptyBlocks(runs[r])
        /\ PlacedBlocks(runs[r]) \cap EmptyBlocks(runs[r]) = {}
        /\ (runs[r].pc = "raster" /\ PlacedBlocks(runs[r]) = {}) =>
              /\ runs[r].cursorY = margin
              /\ runs[r].pdf.cur = 1
              /\ Len(runs[r].pdf.pages)
                    = IF HasScreenshotPage(runs[r]) THEN 2 ELSE 1

\* C18, step: when the loop goes from block i to a later block or to the
\* end, over any blocks without text, the document and the cursor change by
\* the placement of block i alone: one image more, at most one page more and
\* only if block i overflowed, and the cursor just below block i.
C18_SkipFrame ==
    \A r \in 1..MaxRuns :
        (runs[r].pc = "raster" /\ runs'[r].pc \in {"raster", "done"}
            /\ runs'[r] # runs[r]) =>
            LET old == runs[r]
                new == runs'[r]
                page == new.pdf.pages[new.pdf.cur]
                img == page[Len(page)]
            IN /\ img.src = old.i
               /\ Cardinality(BlockImages(new)) = Cardinality(BlockImages(old)) + 1
               /\ new.cursorY = img.y + img.h + gutter
               /\ IF Overflow(old.cursorY, img.h)
                  THEN /\ Len(new.pdf.pages) = Len(old.pdf.pages) + 1
                       /\ new.pdf.cur = Len(new.pdf.pages)
                       /\ img.y = margin
                  ELSE /\ Len(new.pdf.pages) = Len(old.pdf.pages)
                       /\ new.pdf.cur = old.pdf.cur
                       /\ img.y = old.cursorY

\* C18: a block with no visible text is skipped by the export loop: it is
\* not rasterized and not placed, it leaves cursorY and the current page as
\* they are and causes no page break.
C18_EmptyBlockSkipped == []C18_EmptyNotDrawn /\ [][C18_SkipFrame]_vars

\* C18 witness: a saved document whose source had a block without text
\* between two blocks with text.
C18_Witness ==
    \E r \in Active :
        /\ runs[r].pc = "done"
        /\ \E j \in EmptyBlocks(runs[r]) :
              /\ j - 1 \in PlacedBlocks(runs[r])
              /\ j + 1 \in PlacedBlocks(runs[r])

-----------------------------------------------------------------------------
(* Termination of the export *)

\* C12, state: the flag is set exactly while a call is in flight, and with
\* the flag down the Download button starts a call.
C12_FlagWhileInFlight ==
    /\ isGenerating <=> (\E r \in 1..MaxRuns : runs[r].pc = "raster")
    /\ (Shown /\ ~isGenerating) => \E r \in 1..MaxRuns : CanClick(r)

\* C12, step: the step that ends a call, by saving or by failing, resets
\* the flag.
C12_EndResets ==
    \A r \in 1..MaxRuns :
        (runs[r].pc = "raster" /\ runs'[r].pc \in {"done", "failed"})
            => ~isGenerating'

\* C12: every started export ends, saved or failed, with isGenerating reset
\* to false, so that the export can be triggered again.
C12_ExportTerminates ==
    /\ []C12_FlagWhileInFlight
    /\ [][C12_EndResets]_vars
    /\ (isGenerating ~> ~isGenerating)
    /\ \A r \in 1..MaxRuns :
          (runs[r].pc = "raster") ~> (runs[r].pc \in {"done", "failed"})

\* C12 witness: an export has failed after placing blocks, the flag is down
\* and the Download button starts the next export.
C12_Witness ==
    \E r \in Active :
        /\ runs[r].pc = "failed"
        /\ BlockImages(runs[r]) # {}
        /\ ~isGenerating
        /\ \E q \in 1..MaxRuns : CanClick(q)

-----------------------------------------------------------------------------
(* Properties of parseSections *)

Lines == SplitNL(markdown)
IsHeading(k) == StartsWith(Lines[k], HeadingMarker)
Headings == {k \in 1..Len(Lines) : IsHeading(k)}
TitleOf(k) == Trim(DropFirst(Lines[k], 4))

\* the lines after heading k, or from the start for k = 0, up to the next
\* heading or the end of the input
BodyOf(k) ==
    LET later == {h \in Headings : h > k}
        end == IF later = {} THEN Len(Lines)
               ELSE (CHOOSE h \in later : \A g \in later : h <= g) - 1
    IN SubSeq(Lines, k + 1, end)

RECURSIVE HeadedSections(_)
\* one section per heading from line k on, in document order
HeadedSections(k) ==
    IF k > Len(Lines) THEN <<>>
    ELSE IF IsHeading(k)
         THEN <<[title |-> TitleOf(k), content |-> JoinNL(BodyOf(k))]>>
              \o HeadedSections(k + 1)
         ELSE HeadedSections(k + 1)

\* non-empty introductory text followed by headed sections that have content
IntroThenHeaded ==
    /\ Headings # {}
    /\ ~IsHeading(1)
    /\ Trim(JoinNL(BodyOf(0))) # <<>>
    /\ ~StartsWith(markdown, Hashes)
    /\ \A k \in Headings : BodyOf(k) # <<>>

\* C4: for introductory text followed by headed sections the result is the
\* introduction once, as a leading "Overview" section, then one section per
\* heading in document order.
C4_IntroOnce ==
    (ppc = "parsed" /\ IntroThenHeaded) =>
        parsed = <<[title |-> Overview, content |-> JoinNL(BodyOf(0))]>>
                 \o HeadedSections(1)

\* C5: an input without a "### " line gives exactly one section, "Overview",
\* holding the whole input, and the empty input gives no section.
C5_NoHeadingOneOverview ==
    (ppc = "parsed" /\ Headings = {}) =>
        IF markdown = <<>> THEN parsed = <<>>
        ELSE parsed = <<[title |-> Overview, content |-> markdown]>>

\* C6: a heading with a non-default title and no content line after it is
\* emitted as a section with that title and empty content, also when it is
\* the last heading and when it is the only line.
C6_EmptyHeadingEmitted ==
    ppc = "parsed" =>
        \A k \in Headings :
            (TitleOf(k) # Overview /\ BodyOf(k) = <<>>) =>
                \E j \in 1..Len(parsed) :
                    parsed[j] = [title |-> TitleOf(k), content |-> <<>>]

\* C13: for an input with headings, none of them titled "Overview", an
\* "Overview" section is emitted only if the text before the first heading
\* is non-blank, and its content is never empty or whitespace-only.
C13_NoBlankOverview ==
    (ppc = "parsed" /\ Headings # {}
        /\ \A k \in Headings : TitleOf(k) # Overview) =>
        \A j \in 1..Len(parsed) :
            parsed[j].title = Overview =>
                /\ Trim(parsed[j].content) # <<>>
                /\ ~IsHeading(1)
                /\ Trim(JoinNL(BodyOf(0))) # <<>>

\* line k and the next line are both headings
HeadingPair(k) == k + 1 <= Len(Lines) /\ IsHeading(k) /\ IsHeading(k + 1)

\* C14: of two consecutive heading lines the first, unless titled
\* "Overview", is emitted as a section with its title and empty content.
C14_AdjacentHeadings ==
    ppc = "parsed" =>
        \A k \in 1..Len(Lines) :
            (HeadingPair(k) /\ TitleOf(k) # Overview) =>
                \E j \in 1..Len(parsed) :
                    parsed[j] = [title |-> TitleOf(k), content |-> <<>>]

\* C14 witness: a parsed input with two consecutive headings, the first of
\* which was emitted with empty content before a section with content.
C14_Witness ==
    /\ ppc = "parsed"
    /\ \E k \in 1..Len(Lines) :
          /\ HeadingPair(k)
          /\ TitleOf(k) \notin {Overview, <<>>}
          /\ \E j \in 1..(Len(parsed) - 1) :
                /\ parsed[j] = [title |-> TitleOf(k), content |-> <<>>]
                /\ parsed[j + 1].content # <<>>

RECURSIVE IsSubsequence(_, _)
\* s is t with some elements left out
IsSubsequence(s, t) ==
    IF s = <<>> THEN TRUE
    ELSE IF t = <<>> THEN FALSE
    ELSE IF Head(s) = Head(t) THEN IsSubsequence(Tail(s), Tail(t))
    ELSE IsSubsequence(s, Tail(t))

\* C15: for an input whose first characters are "### " every emitted section
\* is the section of a heading line, with that heading's trimmed title and
\* the lines below it, in document order: there is no implicit "Overview".
C15_HeadingFirst ==
    (ppc = "parsed" /\ StartsWith(markdown, HeadingMarker)) =>
        /\ IsSubsequence(parsed, HeadedSections(1))
        /\ (\A k \in Headings : TitleOf(k) # Overview)
              => \A j \in 1..Len(parsed) : parsed[j].title # Overview

\* C15 witness: an input starting with a heading parsed into two sections.
C15_Witness ==
    /\ ppc = "parsed"
    /\ StartsWith(markdown, HeadingMarker)
    /\ Len(parsed) >= 2
    /\ parsed[1].title # Overview

\* no line other than a heading line contains the heading marker
NoMarkerInBody ==
    \A k \in 1..Len(Lines) : IsHeading(k) \/ ~includes(Lines[k], HeadingMarker)

\* where a section may come from: a heading line, or the start of the input
Origins == Headings \cup {0}
OriginTitle(k) == IF k = 0 THEN Overview ELSE TitleOf(k)

\* C16 as stated: splitting the content of an emitted section on newlines
\* gives exactly the input lines between its heading (or the start) and the
\* next heading (or the end).
C16_SplitGivesBody ==
    (ppc = "parsed" /\ NoMarkerInBody) =>
        \A j \in 1..Len(parsed) :
            \E k \in Origins :
                /\ parsed[j].title = OriginTitle(k)
                /\ SplitNL(parsed[j].content) = BodyOf(k)

\* C16 amended: the content of an emitted section is the join by newlines
\* of the input lines between its heading (or the start) and the next
\* heading (or the end), and splitting it on newlines gives back exactly
\* those lines whenever there is at least one of them.
C16_JoinOfBody ==
    (ppc = "parsed" /\ NoMarkerInBody) =>
        \A j \in 1..Len(parsed) :
            \E k \in Origins :
                /\ parsed[j].title = OriginTitle(k)
                /\ parsed[j].content = JoinNL(BodyOf(k))
                /\ BodyOf(k) # <<>> => SplitNL(parsed[j].content) = BodyOf(k)

\* C16 witness: a section emitted for a heading with two lines below it, one
\* of them blank, which its content splits back into.
C16_Witness ==
    /\ ppc = "parsed"
    /\ NoMarkerInBody
    /\ \E j \in 1..Len(parsed) :
          \E k \in Headings :
              /\ parsed[j].title = TitleOf(k)
              /\ Len(BodyOf(k)) = 2
              /\ \E n \in 1..2 : Trim(BodyOf(k)[n]) = <<>>
              /\ SplitNL(parsed[j].content) = BodyOf(k)

-----------------------------------------------------------------------------
(* Properties of the section filter *)

\* c and d are the same character up to the case of a letter
SameLetter(c, d) ==
    \/ c = d
    \/ \E u \in 1..26 : {c, d} = {UpperCase[u], LowerCase[u]}

\* title contains the keyword, case-insensitively
ContainsKeyword(title, keyword) ==
    \E k \in 0..(Len(title) - Len(keyword)) :
        \A n \in 1..Len(keyword) : SameLetter(title[k + n], keyword[n])

\* the rule by which a section is left out of the preview
Excluded(section) ==
    \/ ~includeJson /\ ContainsKeyword(section.title, AutomationJson)
    \/ ~includeA11y /\ ContainsKeyword(section.title, Accessibility)

RECURSIVE Remaining(_)
\* the sections of a sequence that are not excluded, in their order
Remaining(sections) ==
    IF sections = <<>> THEN <<>>
    ELSE (IF Excluded(Head(sections)) THEN <<>> ELSE <<Head(sections)>>)
         \o Remaining(Tail(sections))

\* C17, state: the preview shows the sections of the report, in the
\* report's order, without exactly those whose title contains "automation
\* json" while includeJson is off or "accessibility" while includeA11y is off.
C17_ShownSections ==
    Shown => shownSections = Remaining(dataSections)

\* C17, step: a change of a content option that leaves includeJson and
\* includeA11y as they are leaves the filtered sequence as it is.
C17_CoverAndScreenshotFrame ==
    (includeJson' = includeJson /\ includeA11y' = includeA11y)
        => shownSections' = shownSections

\* C17: the section filter depends on the section sequence, includeJson and
\* includeA11y only: it drops exactly the sections matching a keyword whose
\* option is off, keeps the order, and ignores includeCover and
\* includeScreenshot.
C17_FilterConfigPure ==
    []C17_ShownSections /\ [][C17_CoverAndScreenshotFrame]_vars

\* C17 witness: with the cover and the screenshot switched off and
\* includeJson off, a section titled in capitals is dropped and another
\* section is kept.
C17_Witness ==
    /\ Shown
    /\ ~includeCover /\ ~includeScreenshot
    /\ ~includeJson /\ includeA11y
    /\ Len(shownSections) = 1
    /\ Len(dataSections) = 2
    /\ \E k \in 1..2 :
          /\ dataSections[k].title # toLowerCase(dataSections[k].title)
          /\ includes(toLowerCase(dataSections[k].title), AutomationJson)
          /\ shownSections[1] = dataSections[3 - k]

-----------------------------------------------------------------------------
(* Properties of the history *)

\* an entry of the list holds this task and this report
HasPair(list, taskPrompt, report) ==
    \E k \in 1..Len(list) :
        list[k].task = taskPrompt /\ list[k].result = report

\* C19, state: neither the list in memory nor the stored list has more than
\* 20 entries.
C19_AtMostTwenty ==
    /\ Len(history) <= 20
    /\ Len(stored.items) <= 20

\* C19, step: when an answer is saved whose task and report no entry of a
\* 20-entry history holds, the new entry comes first, the former last entry
\* is gone and the former first 19 follow in their order, in memory and in
\* localStorage.
C19_EvictOldest ==
    \A response \in HistoryReports :
        (RunResolved(response) /\ Len(history) = 20
            /\ ~HasPair(history, pending.task, response)) =>
            /\ Len(history') = 20
            /\ history'[1].task = pending.task
            /\ history'[1].result = response
            /\ SubSeq(history', 2, 20) = SubSeq(history, 1, 19)
            /\ \A k \in 1..20 : history'[k] # history[20]
            /\ stored' = [present |-> TRUE, items |-> history']

C20_PairsDistinct ==
    /\ \A j, k \in 1..Len(history) :
          (history[j].task = history[k].task
              /\ history[j].result = history[k].result) => j = k
    /\ \A j, k \in 1..Len(stored.items) :
          (stored.items[j].task = stored.items[k].task
              /\ stored.items[j].result = stored.items[k].result) => j = k

\* C20, step: an answer whose task and report an entry of the history
\* already holds leaves the list in memory and the stored list as they are.
C20_DuplicateNoOp ==
    \A response \in HistoryReports :
        (RunResolved(response) /\ HasPair(history, pending.task, response))
            => (history' = history /\ stored' = stored)

-----------------------------------------------------------------------------
(* Properties of runUniversalInterface *)

\* the first request failed with status 404 or with a message that contains
\* "404" or "not found"
PrimaryNotFound ==
    /\ svc.primaryFailed
    /\ \/ svc.primaryError.status = 404
       \/ svc.primaryError.hasMessage
            /\ (includes(svc.primaryError.message, Text404)
                \/ includes(svc.primaryError.message, TextNotFound))

\* C21, state: at most two requests are sent, the first to the higher model
\* and the second, to the lesser model with the same content, exactly when
\* the first failed as not found; any other failure of the first request has
\* been thrown to the caller with its message.
C21_TwoAttempts ==
    /\ Len(svc.calls) <= 2
    /\ svc.pc \in {"primary", "fallback", "returned"} => Len(svc.calls) >= 1
    /\ Len(svc.calls) >= 1 => svc.calls[1].model = Pro
    /\ Len(svc.calls) = 2 <=> PrimaryNotFound
    /\ Len(svc.calls) = 2 =>
          svc.calls[2] = [svc.calls[1] EXCEPT !.model = Flash]
    /\ (svc.primaryFailed /\ ~PrimaryNotFound) =>
          /\ svc.pc = "thrown"
          /\ svc.out = OrElse(svc.primaryError.message, UnableToProcess)

\* C21, step: a failure of the second request ends the call by a throw
\* without another request, and a call that has returned or thrown sends
\* nothing more.
C21_NoFurtherRetry ==
    /\ (svc.pc = "fallback" /\ svc' # svc) =>
          (svc'.pc \in {"returned", "thrown"} /\ svc'.calls = svc.calls)
    /\ svc.pc \in {"returned", "thrown"} => svc' = svc

-----------------------------------------------------------------------------
(* Properties of speech playback *)

\* an end callback has run in this step
CallbackRan ==
    \E u \in 1..Len(utterances) : utterances[u] # "done" /\ utterances'[u] = "done"

\* cancel() has been called in this step
EngineCancelled ==
    /\ Len(utterances') = Len(utterances)
    /\ \A u \in 1..Len(utterances) : utterances'[u] \notin Live

\* C24, state: the playback state is one of the three.
C24_ThreeStates == speechState \in {"idle", "playing", "paused"}

\* C24, step: the state changes only from idle to playing with a new
\* utterance, from playing to paused, from paused to playing, or to idle,
\* and to idle only when an end callback runs or speech is stopped.
C24_Transitions ==
    speechState' # speechState =>
        \/ /\ speechState = "idle" /\ speechState' = "playing"
           /\ Len(utterances') = Len(utterances) + 1
           /\ speechRef' = Len(utterances')
        \/ speechState = "playing" /\ speechState' = "paused"
        \/ speechState = "paused" /\ speechState' = "playing"
        \/ speechState' = "idle" /\ (CallbackRan \/ EngineCancelled)

\* C24: speech playback is a machine of the states idle, playing and paused
\* with the transitions start, pause, resume and end/stop; paused is never
\* entered from idle.
C24_SpeechMachine == []C24_ThreeStates /\ [][C24_Transitions]_vars

\* C24 witness: a second utterance is paused after the first one was
\* stopped.
C24_Witness ==
    /\ speechState = "paused"
    /\ Len(utterances) = 2
    /\ utterances[1] = "cancelled"
    /\ utterances[2] = "paused"
    /\ speechRef = 2

\* C27: the end callback of an utterance that was stopped leaves a playback
\* started after the stop as it is: speechState stays 'playing' and
\* speechRef keeps the new utterance.
C27_LateCallbackHarmless ==
    [][\A u \in 1..Len(utterances) :
          (utterances[u] = "cancelled" /\ utterances'[u] = "done"
              /\ speechState = "playing" /\ speechRef # u) =>
              (speechState' = "playing" /\ speechRef' = speechRef)]_vars

-----------------------------------------------------------------------------
(* Properties of the analysis form and the history across instances *)

\* the inputs handleRun refuses
InvalidInput == ~image \/ Trim(task) = <<>>

\* an analysis awaits the service only for an image and a non-blank task,
\* and only while loading is set
C22_CallOnlyIfValid ==
    pending.active => image /\ Trim(pending.task) # <<>> /\ loading

\* a refused click sets the error and nothing else
C22_RefusedClick ==
    [][handleRunChecked /\ InvalidInput =>
          /\ error' = IF ~image THEN PleaseUpload ELSE PleaseDescribe
          /\ UNCHANGED <<loading, result, historyVars, svcVars, speechVars>>]_vars

\* C22: when no image is supplied or the task is empty or only white space,
\* handleRun sets an error message and returns: the service is not called,
\* loading is not set, the result is kept and the history is untouched
C22_ValidationBlocks == []C22_CallOnlyIfValid /\ C22_RefusedClick

\* a click refused for its blank task, with an image, a result on display
\* and a history
C22_Witness ==
    /\ error = PleaseDescribe
    /\ image
    /\ Trim(task) = <<>>
    /\ result # <<>>
    /\ history # <<>>
    /\ ~loading
    /\ ~pending.active

\* the list under 'uia_history', an absent key counting as the empty list
Persisted == IF stored.present THEN stored.items ELSE <<>>

\* C30: after every completed history operation the list persisted under
\* 'uia_history' equals the in-memory history list
C30_PersistedEqualsMemory == history = Persisted

InList(e, list) == \E j \in 1..Len(list) : list[j] = e

\* the entry a save of this step puts first
JustSaved(e) == e.timestamp = now

\* C26: an entry that is not in the history (it was removed) does not come
\* back, in memory or under 'uia_history', except as the entry of a new save
C26_RemovedStaysRemoved ==
    [][/\ \A k \in 1..Len(history') :
             InList(history'[k], history) \/ (k = 1 /\ JustSaved(history'[k]))
       /\ \A k \in 1..Len(Persisted') :
             InList(Persisted'[k], Persisted) \/ (k = 1 /\ JustSaved(Persisted'[k]))
      ]_vars

-----------------------------------------------------------------------------
(* Properties of the follow-up chat *)

\* the list ends with the user's message of the call in flight
EndsWithSent ==
    /\ messages # <<>>
    /\ messages[Len(messages)] = [role |-> "user", text |-> chatCall.newMessage]

\* C23: when the chat service fails, exactly one fallback message of role
\* 'model' is appended after the user's message, nothing else is shown, and
\* loading is false again, so that a further message can be sent
C23_FallbackAfterFailure ==
    [][ChatRejects =>
          /\ EndsWithSent
          /\ messages' = Append(messages, [role |-> "model", text |-> SorryNoResponse])
          /\ ~chatLoading'
          /\ ~chatCall'.active]_vars

\* C25: once the context has changed, no message sent or answered under the
\* previous context enters the list: a call whose context is not the
\* current one appends nothing
C25_NoMessageOfOldContext ==
    [][chatCall.active /\ chatCall.analysisContext # analysisContext'
          => Len(messages') <= Len(messages)]_vars

Alternates(list) ==
    \A i \in 1..Len(list) :
        list[i].role = IF i % 2 = 1 THEN "user" ELSE "model"

NoRepeatedRole(list) ==
    \A i \in 1..(Len(list) - 1) : list[i].role # list[i + 1].role

\* C28: in every reachable state the message list alternates user, model,
\* user, model, ... starting with a user message, and the history passed to
\* the chat service has no two consecutive turns of the same role
C28_RolesAlternate ==
    /\ Alternates(messages)
    /\ chatCall.active => NoRepeatedRole(chatCall.history)

-----------------------------------------------------------------------------
(* The content of an export in flight *)

\* what a click on Download PDF would capture in the current state
BlocksNow == RenderedBlocks(parseSections(result), includeCover, includeJson,
                            includeA11y)

ScreenshotNow == HasScreenshotImg(includeCover, includeScreenshot, imgPreview)

\* the call reaches its first await with the blocks and the screenshot
\* decision of the state in which the button was clicked
C29_TakenAtTrigger ==
    \A r \in 1..MaxRuns :
        (runs[r].pc # "raster" /\ runs'[r].pc = "raster") =>
            /\ runs'[r].blocks = BlocksNow
            /\ HasScreenshotPage(runs'[r]) = ScreenshotNow

\* while the call awaits a block, no step changes its blocks or its
\* screenshot page, and only blocks of the snapshot are placed
C29_FixedInFlight ==
    \A r \in 1..MaxRuns :
        runs[r].pc = "raster" =>
            /\ runs'[r].blocks = runs[r].blocks
            /\ HasScreenshotPage(runs'[r]) = HasScreenshotPage(runs[r])
            /\ PlacedBlocks(runs'[r]) \subseteq TextBlocks(runs[r])

\* C29: the blocks and the screenshot-page decision of an export are taken
\* when it is triggered; toggling the options or closing the modal while
\* blocks are rasterized changes neither the blocks placed nor the presence
\* of the screenshot page
C29_SnapshotAtTrigger == [][C29_TakenAtTrigger /\ C29_FixedInFlight]_vars

\* an export in flight that has placed a block, after the modal was closed
\* with options that give other blocks and another screenshot decision
C29_Witness ==
    \E r \in 1..MaxRuns :
        /\ runs[r].pc = "raster"
        /\ PlacedBlocks(runs[r]) # {}
        /\ runs[r].blocks # BlocksNow
        /\ HasScreenshotPage(runs[r]) # ScreenshotNow
        /\ ~isPdfModalOpen

====
